---- MODULE Spec2Model ----
(***************************************************************************)
(* MCStream container format: encoder (packer.rs), decoder (unpacker.rs),  *)
(* header, palette, chunk payload and index codecs, at byte level.         *)
(*                                                                         *)
(* Conventions                                                             *)
(*   - a byte string (Vec<u8>, String) is a sequence of 0..255;            *)
(*   - Option<T>: None is <<>>, Some(v) is <<v>>;                          *)
(*   - i32 values are integers in MinI32..MaxI32;                          *)
(*   - a u32 read from a file is a pair <<hi, lo>> of 16-bit limbs         *)
(*     (value hi * 65536 + lo), so that all 2^32 values are representable; *)
(*   - HashMap<ChunkPos, ChunkData> is a function whose domain is the set  *)
(*     of stored keys <<x, z>>.                                            *)
(***************************************************************************)
EXTENDS Integers, Sequences, FiniteSets, TLC

VARIABLES
    compression,    \* McsEncoder.compression (0..3)
    has_signature,  \* McsEncoder.has_signature
    signature,      \* McsEncoder.signature : Option<Vec<u8>>
    chunks,         \* McsEncoder.chunks
    added,          \* history: the non-air blocks add_block accepted, in call order
    supplied,       \* history: add_chunk stored a chunk since construction / clear
    call,           \* the last API call, with its arguments
    result,         \* what the last API call returned
    file,           \* the file at the target path: NoFile or its bytes
    written,        \* history: what the last write_to_file put on disk, and the order used
    pc,             \* position of McsDecoder::from_file
    dec,            \* locals of from_file: header, index entries, file size
    tasks,          \* per index entry: the state of its parallel task
    saved_error,    \* the first error a task stored (rayon's collect into Result)
    decoder         \* the McsDecoder returned to the caller: None or Some

evars == <<compression, has_signature, signature, chunks, added, supplied>>
fvars == <<file, written>>
dvars == <<pc, dec, tasks, saved_error, decoder>>
vars == <<compression, has_signature, signature, chunks, added, supplied,
          call, result, file, written, pc, dec, tasks, saved_error, decoder>>

----------------------------------------------------------------------------
\* Bounds of the model

\* blocks held by the encoder in the encoder-only specifications
MaxBlocks == 2
\* blocks held by the encoder in the write/decode specification
MaxFileBlocks == 2

----------------------------------------------------------------------------
\* Generic helpers

\* Bind(e, F) is F(e) with e evaluated once, before F is applied
Bind(e, F(_)) == CHOOSE r \in {F(x) : x \in {e}} : TRUE

None == <<>>
Some(v) == <<v>>
IsSome(o) == Len(o) = 1
Unwrap(o) == o[1]

MaxI32 == 2147483647
MinI32 == -MaxI32 - 1

Range(s) == {s[i] : i \in 1..Len(s)}

\* str::contains
Contains(s, pat) ==
    \E i \in 1..(Len(s) - Len(pat) + 1) : SubSeq(s, i, i + Len(pat) - 1) = pat

\* "stone", "dirt", "minecraft:air", "xminecraft:airy", "minecraft:cave_air"
Stone == <<115, 116, 111, 110, 101>>
Dirt == <<100, 105, 114, 116>>
AirMarker == <<109, 105, 110, 101, 99, 114, 97, 102, 116, 58, 97, 105, 114>>
AirEmbedded == <<120>> \o AirMarker \o <<121>>

IsAir(id) == Contains(id, AirMarker)

----------------------------------------------------------------------------
\* types.rs / chunk.rs: coordinates

\* division by 16 that rounds toward zero
Div16TowardZero(v) == IF v < 0 THEN -((-v) \div 16) ELSE v \div 16

\* x >> 4 on i32 (arithmetic shift)
Shr4(v) == v \div 16
\* (x & 0xF) as u8
And15(v) == v % 16

\* i32 addition y + 64. When the exact sum leaves i32 the build decides:
\* with overflow checks the call panics, without them the sum wraps.
AddOverflows(y) == y > MaxI32 - 64
WrappedAdd64(y) == IF AddOverflows(y) THEN (y - MaxI32 - 1) + (64 - MaxI32 - 1) ELSE y + 64
\* (v as u16) for an i32 v
AsU16(v) == v % 65536

ChunkPosOf(x, z) == <<Shr4(x), Shr4(z)>>
LocalPosOf(x, y, z) == [x |-> And15(x), y |-> AsU16(WrappedAdd64(y)), z |-> And15(z)]
actual_y(pos) == pos.y - 64

validate_local_pos(pos) ==
    IF pos.x > 15 \/ pos.z > 15 \/ pos.y > 383 THEN "CoordinateOutOfRange" ELSE "Ok"

----------------------------------------------------------------------------
\* packer.rs: the encoder's in-memory operations

EmptyMap == [k \in {} |-> 0]

Put(m, k, v) == [q \in (DOMAIN m) \cup {k} |-> IF q = k THEN v ELSE m[q]]

\* a lookup that never finds the id
PositionNotFound(palette, id) == -1

\* iter().position(|id| *id == block_id)
Position(palette, id) ==
    IF \E i \in 1..Len(palette) : palette[i] = id
    THEN (CHOOSE i \in 1..Len(palette) :
              palette[i] = id /\ \A j \in 1..(i - 1) : palette[j] # id) - 1
    ELSE -1

\* add_block after the air test (packer.rs lines 54-87);
\* checked = the build traps integer overflow
InsertBlock(chs, id, x, y, z, nbt, checked) ==
    IF AddOverflows(y) /\ checked
    THEN [result |-> "Panic", chunks |-> chs, stored |-> FALSE]
    ELSE
    LET chunk_pos == ChunkPosOf(x, z)
        local_pos == LocalPosOf(x, y, z)
    IN  IF validate_local_pos(local_pos) # "Ok"
        THEN [result |-> "CoordinateOutOfRange", chunks |-> chs, stored |-> FALSE]
        ELSE
        LET chunk == IF chunk_pos \in DOMAIN chs THEN chs[chunk_pos]
                     ELSE [pos |-> chunk_pos, palette |-> <<>>, blocks |-> <<>>]
            found == Position(chunk.palette, id)
            palette == IF found >= 0 THEN chunk.palette ELSE Append(chunk.palette, id)
            palette_index == IF found >= 0 THEN found ELSE Len(palette) - 1
            block == [palette_index |-> palette_index, pos |-> local_pos, nbt |-> nbt]
        IN  [result |-> "Ok",
             chunks |-> Put(chs, chunk_pos,
                            [pos |-> chunk_pos, palette |-> palette,
                             blocks |-> Append(chunk.blocks, block)]),
             stored |-> TRUE]

\* add_block without the air test
add_block_unfiltered(chs, id, x, y, z, nbt, checked) ==
    InsertBlock(chs, id, x, y, z, nbt, checked)

\* add_block on a chunk map
add_block(chs, id, x, y, z, nbt, checked) ==
    IF IsAir(id) THEN [result |-> "Ok", chunks |-> chs, stored |-> FALSE]
    ELSE InsertBlock(chs, id, x, y, z, nbt, checked)

\* add_blocks that skips a rejected position and goes on with the next
RECURSIVE add_blocks_skipping(_, _, _, _, _, _)
add_blocks_skipping(chs, id, positions, nbt, checked, done) ==
    IF positions = <<>> THEN [result |-> "Ok", chunks |-> chs, done |-> done]
    ELSE Bind(add_block(chs, id, Head(positions)[1], Head(positions)[2],
                        Head(positions)[3], nbt, checked), LAMBDA r :
         IF r.result # "Ok"
         THEN [add_blocks_skipping(chs, id, Tail(positions), nbt, checked, done)
                   EXCEPT !.result = r.result]
         ELSE add_blocks_skipping(r.chunks, id, Tail(positions), nbt, checked, done + 1))

\* add_blocks: add_block per position, `?` returns at the first failure.
\* done = the number of positions whose add_block returned Ok.
RECURSIVE add_blocks(_, _, _, _, _, _)
add_blocks(chs, id, positions, nbt, checked, done) ==
    IF positions = <<>> THEN [result |-> "Ok", chunks |-> chs, done |-> done]
    ELSE Bind(add_block(chs, id, Head(positions)[1], Head(positions)[2],
                        Head(positions)[3], nbt, checked), LAMBDA r :
         IF r.result # "Ok" THEN [result |-> r.result, chunks |-> chs, done |-> done]
         ELSE add_blocks(r.chunks, id, Tail(positions), nbt, checked, done + 1))

\* add_chunk that validates the first block only
add_chunk_first_block_only(chs, chunk) ==
    IF chunk.blocks # <<>> /\ validate_local_pos(chunk.blocks[1].pos) # "Ok"
    THEN [result |-> "CoordinateOutOfRange", chunks |-> chs]
    ELSE [result |-> "Ok", chunks |-> Put(chs, chunk.pos, chunk)]

\* add_chunk: every block validated, then the chunk stored under its pos
add_chunk(chs, chunk) ==
    IF \E i \in 1..Len(chunk.blocks) : validate_local_pos(chunk.blocks[i].pos) # "Ok"
    THEN [result |-> "CoordinateOutOfRange", chunks |-> chs]
    ELSE [result |-> "Ok", chunks |-> Put(chs, chunk.pos, chunk)]

TotalBlocks(chs) ==
    LET keys == DOMAIN chs
        RECURSIVE Count(_)
        Count(S) == IF S = {} THEN 0
                    ELSE LET k == CHOOSE k \in S : TRUE
                         IN  Len(chs[k].blocks) + Count(S \ {k})
    IN  Count(keys)

----------------------------------------------------------------------------
\* Numbers on disk

\* A u32 / u64 quantity as <<hi, lo>>, value hi * 65536 + lo, 0 <= lo < 65536.
\* A u32 has hi < 65536.
Big(n) == <<n \div 65536, n % 65536>>
BigLt(a, b) == a[1] < b[1] \/ (a[1] = b[1] /\ a[2] < b[2])
BigLe(a, b) == a = b \/ BigLt(a, b)
BigAdd(a, b) == <<a[1] + b[1] + ((a[2] + b[2]) \div 65536), (a[2] + b[2]) % 65536>>
\* small enough to be used as a length or an index
IsSmall(a) == a[1] < 16384
Small(a) == a[1] * 65536 + a[2]

\* u32 + u32: the exact sum leaves u32 exactly when its hi limb reaches 65536
U32Overflows(a, b) == BigAdd(a, b)[1] >= 65536
U32WrappingAdd(a, b) == <<BigAdd(a, b)[1] % 65536, BigAdd(a, b)[2]>>

U32Max == <<65535, 65535>>

\* write_u16::<LittleEndian>, write_u32::<LittleEndian> (the low 4 bytes: `as u32`),
\* write_i32::<LittleEndian> (two's complement)
U16BE(n) == <<(n \div 256) % 256, n % 256>>
U16LE(n) == <<n % 256, (n \div 256) % 256>>
U32LE(n) == <<n % 256, (n \div 256) % 256, (n \div 65536) % 256, (n \div 16777216) % 256>>
I32LE(n) == U32LE(n)
BigLE(a) == U16LE(a[2]) \o U16LE(a[1])

\* a sink that ignores the seek and appends
WriteAtEnd(buf, p, bytes) == buf \o bytes

\* A Write + Seek sink: bytes written at position p overwrite and extend
WriteAt(buf, p, bytes) ==
    SubSeq(buf, 1, p) \o bytes \o SubSeq(buf, p + Len(bytes) + 1, Len(buf))

\* Readers over (data, position); position counts the bytes consumed.
\* read_exact fails with an I/O error (UnexpectedEof) when the bytes are not there.
Ok(v, p) == [ok |-> TRUE, v |-> v, pos |-> p]
Err(e) == [ok |-> FALSE, err |-> e]

ReadU8(d, p) == IF p + 1 > Len(d) THEN Err("Io") ELSE Ok(d[p + 1], p + 1)
ReadU16LE(d, p) == IF p + 2 > Len(d) THEN Err("Io") ELSE Ok(d[p + 1] + 256 * d[p + 2], p + 2)
\* the two bytes taken low byte first
ReadU16LowFirst(d, p) == IF p + 2 > Len(d) THEN Err("Io") ELSE Ok(d[p + 1] + 256 * d[p + 2], p + 2)
ReadU16BE(d, p) == IF p + 2 > Len(d) THEN Err("Io") ELSE Ok(256 * d[p + 1] + d[p + 2], p + 2)
ReadU32LE(d, p) ==
    IF p + 4 > Len(d) THEN Err("Io")
    ELSE Ok(<<d[p + 3] + 256 * d[p + 4], d[p + 1] + 256 * d[p + 2]>>, p + 4)
ReadI32LE(d, p) ==
    IF p + 4 > Len(d) THEN Err("Io")
    ELSE LET hi == d[p + 3] + 256 * d[p + 4]
             lo == d[p + 1] + 256 * d[p + 2]
         IN  Ok((IF hi >= 32768 THEN hi - 65536 ELSE hi) * 65536 + lo, p + 4)
ReadBytes(d, p, n) == IF p + n > Len(d) THEN Err("Io") ELSE Ok(SubSeq(d, p + 1, p + n), p + n)

----------------------------------------------------------------------------
\* lib.rs, header.rs

MCS_VERSION == 256
\* b"MCSTRM\0\0"
MCS_MAGIC == <<77, 67, 83, 84, 82, 77, 0, 0>>
HeaderSize == 20

write_header(compression_type, has_sig) ==
    MCS_MAGIC
    \o <<MCS_VERSION \div 256, MCS_VERSION % 256>>
    \o <<compression_type>>
    \o <<IF has_sig THEN 1 ELSE 0>>
    \o U32LE(0)
    \o <<0, 0, 0, 0>>

read_header(d) ==
    LET magic == ReadBytes(d, 0, 8)
        version == ReadU16BE(d, 8)
        comp == ReadU8(d, 10)
        flags == ReadU8(d, 11)
        offset == ReadU32LE(d, 12)
        reserved == ReadBytes(d, 16, 4)
    IN  IF ~magic.ok THEN Err("Io")
        ELSE IF magic.v # MCS_MAGIC THEN Err("InvalidMagic")
        ELSE IF ~version.ok THEN Err("Io")
        ELSE IF version.v # MCS_VERSION THEN Err("UnsupportedVersion")
        ELSE IF ~comp.ok THEN Err("Io")
        ELSE IF comp.v > 3 THEN Err("UnsupportedCompression")
        ELSE IF ~flags.ok \/ ~offset.ok \/ ~reserved.ok THEN Err("Io")
        ELSE Ok([version |-> version.v, compression |-> comp.v, flags |-> flags.v,
                 index_table_offset |-> offset.v], 20)

----------------------------------------------------------------------------
\* palette.rs

\* String::from_utf8: well-formed UTF-8 (RFC 3629)
RECURSIVE IsUtf8(_)
IsUtf8(b) ==
    LET Cont(i, lo, hi) == Len(b) >= i /\ b[i] >= lo /\ b[i] <= hi
        Rest(n) == IsUtf8(SubSeq(b, n + 1, Len(b)))
    IN  IF b = <<>> THEN TRUE
        ELSE IF b[1] < 128 THEN Rest(1)
        ELSE IF b[1] >= 194 /\ b[1] <= 223 THEN Cont(2, 128, 191) /\ Rest(2)
        ELSE IF b[1] = 224 THEN Cont(2, 160, 191) /\ Cont(3, 128, 191) /\ Rest(3)
        ELSE IF b[1] = 237 THEN Cont(2, 128, 159) /\ Cont(3, 128, 191) /\ Rest(3)
        ELSE IF b[1] >= 225 /\ b[1] <= 239 THEN Cont(2, 128, 191) /\ Cont(3, 128, 191) /\ Rest(3)
        ELSE IF b[1] = 240
        THEN Cont(2, 144, 191) /\ Cont(3, 128, 191) /\ Cont(4, 128, 191) /\ Rest(4)
        ELSE IF b[1] >= 241 /\ b[1] <= 243
        THEN Cont(2, 128, 191) /\ Cont(3, 128, 191) /\ Cont(4, 128, 191) /\ Rest(4)
        ELSE IF b[1] = 244
        THEN Cont(2, 128, 143) /\ Cont(3, 128, 191) /\ Cont(4, 128, 191) /\ Rest(4)
        ELSE FALSE

validate_palette(palette) ==
    IF \E i \in 1..Len(palette) : IsAir(palette[i]) THEN "AirInPalette" ELSE "Ok"

RECURSIVE PaletteEntries(_)
PaletteEntries(palette) ==
    IF palette = <<>> THEN <<>>
    ELSE U16LE(Len(Head(palette))) \o Head(palette) \o PaletteEntries(Tail(palette))

\* write_palette into an empty buffer: Ok(bytes) or the error
write_palette(palette) ==
    IF validate_palette(palette) # "Ok" THEN Err("AirInPalette")
    ELSE IF Len(palette) > 65535 THEN Err("PaletteError")
    ELSE IF \E i \in 1..Len(palette) : Len(palette[i]) > 65535 THEN Err("PaletteError")
    ELSE Ok(U16LE(Len(palette)) \o PaletteEntries(palette), 0)

RECURSIVE ReadPaletteEntries(_, _, _, _)
ReadPaletteEntries(d, p, n, acc) ==
    IF n = 0 THEN Ok(acc, p)
    ELSE Bind(ReadU16LE(d, p), LAMBDA str_len :
         IF ~str_len.ok THEN Err("Io")
         ELSE Bind(ReadBytes(d, str_len.pos, str_len.v), LAMBDA buffer :
              IF ~buffer.ok THEN Err("Io")
              ELSE IF ~IsUtf8(buffer.v) THEN Err("PaletteError")
              ELSE IF IsAir(buffer.v) THEN Err("AirInPalette")
              ELSE Bind(Append(acc, buffer.v), LAMBDA palette :
                   ReadPaletteEntries(d, buffer.pos, n - 1, palette))))

read_palette(d, p) ==
    Bind(ReadU16LE(d, p), LAMBDA palette_size :
    IF ~palette_size.ok THEN Err("Io")
    ELSE ReadPaletteEntries(d, palette_size.pos, palette_size.v, <<>>))

----------------------------------------------------------------------------
\* chunk.rs: index table and chunk payload

RECURSIVE IndexEntries(_)
IndexEntries(entries) ==
    IF entries = <<>> THEN <<>>
    ELSE LET e == Head(entries)
         IN  I32LE(e.chunk_x) \o I32LE(e.chunk_z) \o U32LE(e.data_offset)
             \o U32LE(e.compressed_size) \o IndexEntries(Tail(entries))

\* write_chunk_index: the bytes written at the writer's position
write_chunk_index(entries) == U32LE(Len(entries)) \o IndexEntries(entries)

RECURSIVE ReadIndexEntries(_, _, _, _)
ReadIndexEntries(d, p, n, acc) ==
    IF n = 0 THEN Ok(acc, p)
    ELSE LET cx == ReadI32LE(d, p)
             cz == ReadI32LE(d, p + 4)
             off == ReadU32LE(d, p + 8)
             size == ReadU32LE(d, p + 12)
         IN  IF ~cx.ok \/ ~cz.ok \/ ~off.ok \/ ~size.ok THEN Err("Io")
             ELSE ReadIndexEntries(d, p + 16, n - 1,
                      Append(acc, [chunk_x |-> cx.v, chunk_z |-> cz.v,
                                   data_offset |-> off.v, compressed_size |-> size.v]))

\* read_chunk_index at position p. An entry count the remaining bytes cannot hold
\* ends in the I/O error of the first missing read (the Vec::with_capacity
\* allocation is taken to succeed).
read_chunk_index(d, p) ==
    Bind(ReadU32LE(d, p), LAMBDA entry_count :
    IF ~entry_count.ok THEN Err("Io")
    ELSE IF BigLt(Big((Len(d) - entry_count.pos) \div 16), entry_count.v) THEN Err("Io")
    ELSE ReadIndexEntries(d, entry_count.pos, Small(entry_count.v), <<>>))

RECURSIVE BlockRecords(_)
BlockRecords(blocks) ==
    IF blocks = <<>> THEN <<>>
    ELSE LET b == Head(blocks)
         IN  U16LE(b.palette_index) \o <<b.pos.x>> \o U16LE(b.pos.y) \o <<b.pos.z>>
             \o <<IF IsSome(b.nbt) THEN 1 ELSE 0>> \o BlockRecords(Tail(blocks))

\* chunk.blocks.iter().filter(|block| block.nbt.is_some())
RECURSIVE NbtBlocks(_)
NbtBlocks(blocks) ==
    IF blocks = <<>> THEN <<>>
    ELSE (IF IsSome(Head(blocks).nbt) THEN <<Head(blocks)>> ELSE <<>>)
         \o NbtBlocks(Tail(blocks))

RECURSIVE NbtBlobs(_)
NbtBlobs(nbt_blocks) ==
    IF nbt_blocks = <<>> THEN <<>>
    ELSE U32LE(Len(Unwrap(Head(nbt_blocks).nbt))) \o Unwrap(Head(nbt_blocks).nbt)
         \o NbtBlobs(Tail(nbt_blocks))

serialize_chunk(chunk) ==
    Bind(write_palette(chunk.palette), LAMBDA pal :
        IF ~pal.ok THEN pal
        ELSE Ok(pal.v
                \o U32LE(Len(chunk.blocks))
                \o BlockRecords(chunk.blocks)
                \o U32LE(Len(NbtBlocks(chunk.blocks)))
                \o NbtBlobs(NbtBlocks(chunk.blocks)), 0))

RECURSIVE ReadBlockRecords(_, _, _, _)
ReadBlockRecords(d, p, n, acc) ==
    IF n = 0 THEN Ok(acc, p)
    ELSE LET palette_index == ReadU16LE(d, p)
             x == ReadU8(d, p + 2)
             y == ReadU16LE(d, p + 3)
             z == ReadU8(d, p + 5)
             flags == ReadU8(d, p + 6)
         IN  IF ~palette_index.ok \/ ~x.ok \/ ~y.ok \/ ~z.ok \/ ~flags.ok THEN Err("Io")
             ELSE ReadBlockRecords(d, p + 7, n - 1,
                      Append(acc, [palette_index |-> palette_index.v,
                                   pos |-> [x |-> x.v, y |-> y.v, z |-> z.v],
                                   nbt |-> IF flags.v % 2 = 1 THEN Some(<<>>) ELSE None]))

\* the metadata segment: one length-prefixed blob per flagged block, in order
RECURSIVE ReadNbtBlobs(_, _, _, _)
ReadNbtBlobs(d, p, blocks, i) ==
    IF i > Len(blocks) THEN Ok(blocks, p)
    ELSE IF ~IsSome(blocks[i].nbt) THEN ReadNbtBlobs(d, p, blocks, i + 1)
    ELSE Bind(ReadU32LE(d, p), LAMBDA nbt_len :
         IF ~nbt_len.ok THEN Err("Io")
         ELSE IF ~IsSmall(nbt_len.v) THEN Err("Io")
         ELSE Bind(ReadBytes(d, nbt_len.pos, Small(nbt_len.v)), LAMBDA nbt_data :
              IF ~nbt_data.ok THEN Err("Io")
              ELSE Bind([blocks EXCEPT ![i].nbt = Some(nbt_data.v)], LAMBDA filled :
                   ReadNbtBlobs(d, nbt_data.pos, filled, i + 1))))

NbtCountUnchecked(nbt_count, nbt_blocks) == FALSE

\* nbt_count as usize != nbt_blocks.len()
NbtCountMismatch(nbt_count, nbt_blocks) == nbt_count # Big(Len(nbt_blocks))

\* block records the remaining bytes cannot hold end in the first missing read
deserialize_chunk(d, pos) ==
    Bind(read_palette(d, 0), LAMBDA palette :
    IF ~palette.ok THEN palette
    ELSE
    Bind(ReadU32LE(d, palette.pos), LAMBDA block_count :
    IF ~block_count.ok THEN Err("Io")
    ELSE IF BigLt(Big((Len(d) - block_count.pos) \div 7), block_count.v) THEN Err("Io")
    ELSE
    Bind(ReadBlockRecords(d, block_count.pos, Small(block_count.v), <<>>), LAMBDA blocks :
    IF ~blocks.ok THEN blocks
    ELSE
    Bind(ReadU32LE(d, blocks.pos), LAMBDA nbt_count :
    IF ~nbt_count.ok THEN Err("Io")
    ELSE IF NbtCountMismatch(nbt_count.v, NbtBlocks(blocks.v)) THEN Err("NbtError")
    ELSE
    Bind(ReadNbtBlobs(d, nbt_count.pos, blocks.v, 1), LAMBDA filled :
    IF ~filled.ok THEN filled
    ELSE Ok([pos |-> pos, palette |-> palette.v, blocks |-> filled.v], filled.pos))))))

----------------------------------------------------------------------------
\* compression.rs
\*
\* The codecs are external libraries; each is modelled as a framing that stores the
\* input bytes unchanged between the library's stream marks, which keeps what the
\* calls in compression.rs decide: which streams are finished and which are not.
\*   zstd:   encoder.finish() closes the frame;
\*   brotli: flush() and drop close the stream;
\*   lz4:    the encoder is dropped without finish(): the frame header and the
\*           blocks already filled (Lz4BlockSize bytes each) are all that reach the
\*           output, with no end mark; the decoder returns what it could decode.

ZstdMagic == <<40, 181, 47, 253>>
ZstdEnd == <<1, 0, 0>>
Lz4Header == <<4, 34, 77, 24, 96, 64, 130>>
Lz4BlockSize == 65536
BrotliHead == <<11>>
BrotliEnd == <<3>>

HasPrefix(d, pre) == Len(d) >= Len(pre) /\ SubSeq(d, 1, Len(pre)) = pre
HasSuffix(d, suf) == Len(d) >= Len(suf) /\ SubSeq(d, Len(d) - Len(suf) + 1, Len(d)) = suf

compress_data(data, compression_type) ==
    CASE compression_type = 0 -> Ok(data, 0)
      [] compression_type = 1 -> Ok(ZstdMagic \o data \o ZstdEnd, 0)
      [] compression_type = 2 ->
            Ok(Lz4Header \o SubSeq(data, 1, (Len(data) \div Lz4BlockSize) * Lz4BlockSize), 0)
      [] compression_type = 3 -> Ok(BrotliHead \o data \o BrotliEnd, 0)

decompress_data(compressed_data, compression_type) ==
    CASE compression_type = 0 -> Ok(compressed_data, 0)
      [] compression_type = 1 ->
            IF HasPrefix(compressed_data, ZstdMagic)
               /\ HasSuffix(SubSeq(compressed_data, 5, Len(compressed_data)), ZstdEnd)
            THEN Ok(SubSeq(compressed_data, 5, Len(compressed_data) - 3), 0)
            ELSE Err("Io")
      [] compression_type = 2 ->
            IF Len(compressed_data) < 7 THEN Ok(<<>>, 0)
            ELSE IF HasPrefix(compressed_data, Lz4Header)
            THEN Ok(SubSeq(compressed_data, 8, Len(compressed_data)), 0)
            ELSE Err("Io")
      [] compression_type = 3 ->
            IF HasPrefix(compressed_data, BrotliHead)
               /\ HasSuffix(SubSeq(compressed_data, 2, Len(compressed_data)), BrotliEnd)
            THEN Ok(SubSeq(compressed_data, 2, Len(compressed_data) - 1), 0)
            ELSE Err("Io")

compression_type_from_u8(value) ==
    IF value \in 0..3 THEN Ok(value, 0) ELSE Err("UnsupportedCompression")

compress_chunk(chunk, compression_type) ==
    Bind(serialize_chunk(chunk), LAMBDA ser :
    IF ~ser.ok THEN ser ELSE compress_data(ser.v, compression_type))

decompress_chunk(compressed_data, compression_type, pos) ==
    Bind(compression_type_from_u8(compression_type), LAMBDA ct :
    IF ~ct.ok THEN ct
    ELSE Bind(decompress_data(compressed_data, ct.v), LAMBDA decompressed :
         IF ~decompressed.ok THEN decompressed
         ELSE deserialize_chunk(decompressed.v, pos)))

----------------------------------------------------------------------------
\* packer.rs: write_to_file / write_to_writer

NoFile == <<-1>>

\* the orders in which HashMap::values() may yield the chunks
Orders(chs) ==
    LET n == Cardinality(DOMAIN chs)
    IN  {o \in [1..n -> DOMAIN chs] : \A i, j \in 1..n : o[i] = o[j] => i = j}

\* step 4: serialize and compress every chunk, in iteration order; `?` returns the
\* first error
RECURSIVE CompressAll(_, _, _, _)
CompressAll(chs, order, compression_type, acc) ==
    IF order = <<>> THEN Ok(acc, 0)
    ELSE Bind(compress_chunk(chs[Head(order)], compression_type), LAMBDA c :
         IF ~c.ok THEN c
         ELSE Bind(Append(acc, c.v), LAMBDA chunk_data :
              CompressAll(chs, Tail(order), compression_type, chunk_data)))

\* offsets that do not advance
DataOffsetsFixed(current_offset, chunk_data) ==
    [i \in 1..Len(chunk_data) |-> current_offset]

\* step 6: chunk i is written at current_offset, which then advances by its length
\* (u32 arithmetic; the sizes of the model stay far below 2^32)
RECURSIVE DataOffsets(_, _)
DataOffsets(current_offset, chunk_data) ==
    IF chunk_data = <<>> THEN <<>>
    ELSE <<current_offset>>
         \o DataOffsets(current_offset + Len(Head(chunk_data)), Tail(chunk_data))

RECURSIVE Concat(_)
Concat(ss) == IF ss = <<>> THEN <<>> ELSE Head(ss) \o Concat(Tail(ss))

ChunkIndex(chs, order, chunk_data, offsets) ==
    [i \in 1..Len(order) |->
        [chunk_x |-> chs[order[i]].pos[1], chunk_z |-> chs[order[i]].pos[2],
         data_offset |-> offsets[i], compressed_size |-> Len(chunk_data[i])]]

NoChunksUnchecked(chs) == FALSE

\* self.chunks.is_empty()
NoChunks(chs) == DOMAIN chs = {}

\* write_to_writer on an empty sink; the result, the sink's bytes when it returns,
\* and the sink after each numbered step
write_to_writer(chs, compression_type, has_sig, sig, order) ==
    IF NoChunks(chs) THEN [result |-> "ValidationError", bytes |-> <<>>]
    ELSE
    LET index_table_offset == HeaderSize
        zeros == [i \in 1..Len(order) |-> 0]
    IN
    Bind(write_header(compression_type, has_sig), LAMBDA w1 :
    Bind(WriteAt(w1, 12, U32LE(index_table_offset)), LAMBDA w2 :
    Bind(CompressAll(chs, order, compression_type, <<>>), LAMBDA comp :
    IF ~comp.ok THEN [result |-> comp.err, bytes |-> w2]
    ELSE
    Bind(write_chunk_index(ChunkIndex(chs, order, comp.v, zeros)), LAMBDA first_index :
    Bind(WriteAt(w2, index_table_offset, first_index), LAMBDA w5 :
    Bind(DataOffsets(index_table_offset + Len(first_index), comp.v), LAMBDA offsets :
    Bind(WriteAt(w5, index_table_offset + Len(first_index), Concat(comp.v)), LAMBDA w6 :
    Bind(ChunkIndex(chs, order, comp.v, offsets), LAMBDA chunk_index :
    Bind(WriteAt(w6, index_table_offset, write_chunk_index(chunk_index)), LAMBDA w7 :
        [result |-> "Ok",
         bytes |-> IF has_sig /\ IsSome(sig) THEN w7 \o Unwrap(sig) ELSE w7,
         index |-> chunk_index, order |-> order,
         w2 |-> w2, w5 |-> w5, w6 |-> w6, w7 |-> w7])))))))))

\* write_to_file: an existing file is removed (if path.exists() { remove_file }),
\* the file is created with create_new(true), which fails when the path still
\* exists, and holds whatever write_to_writer wrote when it returned
\* no removal of the existing file
KeepExisting(old) == old

RemoveExisting(old) == IF old # NoFile THEN NoFile ELSE old

write_to_file(old, chs, compression_type, has_sig, sig, order) ==
    LET at_path == RemoveExisting(old)
    IN  IF at_path # NoFile THEN [result |-> "Io", bytes |-> at_path]
        ELSE write_to_writer(chs, compression_type, has_sig, sig, order)

----------------------------------------------------------------------------
\* unpacker.rs: McsDecoder::from_file

\* validate_file_size (utils.rs): size > 0xFFFFFFFF
validate_file_size(file_size) == IF BigLt(U32Max, Big(file_size)) THEN "FileTooLarge" ELSE "Ok"

\* the comparison with > in place of >=
IndexOffsetPastFile(offset, file_size) == BigLt(Big(file_size), offset)

\* header.index_table_offset as u64 >= file_size
IndexOffsetBeyondFile(offset, file_size) == ~BigLt(offset, Big(file_size))

\* (entry.data_offset + entry.compressed_size) as u64 > file_size, the sum in u32
EntryOverflows(e) == U32Overflows(e.data_offset, e.compressed_size)
EntryEnd(e) == U32WrappingAdd(e.data_offset, e.compressed_size)
EntryBeyondFile(e, file_size) == BigLt(Big(file_size), EntryEnd(e))

\* the loop over the index entries; checked = the build traps integer overflow
RECURSIVE ValidateEntries(_, _, _)
ValidateEntries(entries, file_size, checked) ==
    IF entries = <<>> THEN "Ok"
    ELSE IF EntryOverflows(Head(entries)) /\ checked THEN "Panic"
    ELSE IF EntryBeyondFile(Head(entries), file_size) THEN "ValidationError"
    ELSE ValidateEntries(Tail(entries), file_size, checked)

\* from_file up to the fan-out: open, size checks, header, index table, entry ranges
FromFilePrefix(f, checked) ==
    IF f = NoFile THEN [result |-> "Io"]
    ELSE
    LET file_size == Len(f)
    IN  IF file_size < HeaderSize THEN [result |-> "ValidationError"]
        ELSE IF validate_file_size(file_size) # "Ok" THEN [result |-> "FileTooLarge"]
        ELSE
        Bind(read_header(f), LAMBDA header :
        IF ~header.ok THEN [result |-> header.err]
        ELSE IF IndexOffsetBeyondFile(header.v.index_table_offset, file_size)
        THEN [result |-> "ValidationError"]
        ELSE
        Bind(read_chunk_index(f, Small(header.v.index_table_offset)), LAMBDA index_entries :
        IF ~index_entries.ok THEN [result |-> index_entries.err]
        ELSE IF index_entries.v = <<>> THEN [result |-> "ChunkIndexError"]
        ELSE
        Bind(ValidateEntries(index_entries.v, file_size, checked), LAMBDA ranges :
        IF ranges # "Ok" THEN [result |-> ranges]
        ELSE [result |-> "Ok", header |-> header.v, entries |-> index_entries.v,
              file_size |-> file_size])))

\* one task of the fan-out: open, seek, read_exact, decompress, deserialize
RunTask(f, entry, compression_type) ==
    LET end == BigAdd(entry.data_offset, entry.compressed_size)
        empty == entry.compressed_size = <<0, 0>>
    IN  IF f = NoFile THEN Err("Io")
        ELSE IF ~empty /\ BigLt(Big(Len(f)), end) THEN Err("Io")
        ELSE
        LET pos == <<entry.chunk_x, entry.chunk_z>>
        IN  Bind(IF empty THEN <<>> ELSE SubSeq(f, Small(entry.data_offset) + 1, Small(end)),
                 LAMBDA compressed_data :
            Bind(decompress_chunk(compressed_data, compression_type, pos), LAMBDA chunk :
            IF ~chunk.ok THEN chunk ELSE Ok(<<pos, chunk.v>>, 0)))

\* collect() of the (pos, chunk) pairs into a HashMap: a later pair replaces an
\* earlier one with the same key
RECURSIVE CollectMap(_, _)
CollectMap(pairs, acc) ==
    IF pairs = <<>> THEN acc
    ELSE CollectMap(Tail(pairs), Put(acc, Head(pairs)[1], Head(pairs)[2]))

\* iter().max_by_key(|e| e.data_offset + e.compressed_size): the last maximal entry
LastEntry(entries) ==
    entries[CHOOSE i \in 1..Len(entries) :
                /\ \A j \in 1..Len(entries) : BigLe(EntryEnd(entries[j]), EntryEnd(entries[i]))
                /\ \A j \in (i + 1)..Len(entries) : EntryEnd(entries[j]) # EntryEnd(entries[i])]

Sha256(bytes) == [sha256_of |-> bytes]

\* a join that keeps the pairs of the tasks that succeeded and drops the errors
CollectSuccesses(task_states, first_error) ==
    Ok([i \in 1..Len(SelectSeq(task_states, LAMBDA t : t.st = "ok")) |->
           SelectSeq(task_states, LAMBDA t : t.st = "ok")[i].pair], 0)

\* .collect::<Result<HashMap, _>>() followed by `chunks?`: the stored error if a
\* task failed, else the pairs of all tasks in index order
Collect(task_states, first_error) ==
    IF first_error # None THEN Err(Unwrap(first_error))
    ELSE Ok([i \in 1..Len(task_states) |-> task_states[i].pair], 0)

\* from_file after the join, all tasks having succeeded. (The sums are computed
\* again here; one that overflows has already panicked in the entry loop when the
\* build traps overflow.)
FromFileSuffix(f, d, pairs) ==
    LET footer_offset == EntryEnd(LastEntry(d.entries))
        file_size == Big(d.file_size)
    IN  IF BigLt(file_size, footer_offset) THEN [result |-> "ValidationError"]
        ELSE
        LET signature_data == SubSeq(f, Small(footer_offset) + 1, Len(f))
            sig == IF BigLt(footer_offset, file_size)
                      /\ signature_data # <<>> /\ d.header.flags % 2 = 1
                   THEN Some(signature_data) ELSE None
        IN  [result |-> "Ok",
             decoder |-> [header |-> d.header,
                          chunks |-> CollectMap(pairs, EmptyMap),
                          data_hash |-> Sha256(SubSeq(f, 1, Small(footer_offset))),
                          signature |-> sig]]

----------------------------------------------------------------------------
\* Inputs

Req(id, x, y, z, nbt) == [id |-> id, x |-> x, y |-> y, z |-> z, nbt |-> nbt]

\* add_block calls of the encoder-only specifications: accepted blocks in three
\* chunks, both ends of the y range, the y values just outside it, y values whose
\* re-based value does not fit 16 bits or i32, extreme x and z, air-marked ids
Requests ==
    { Req(Stone, 0, 0, 0, None),
      Req(Stone, 0, 0, 0, Some(<<10>>)),
      Req(Dirt, 0, 0, 0, Some(<<>>)),
      Req(Dirt, -1, -64, 5, None),
      Req(Stone, 16, 319, -17, None),
      Req(Stone, MaxI32, 0, MinI32, None),
      Req(Stone, 0, -65, 0, None),
      Req(Dirt, -1, 320, 5, None),
      Req(Stone, 0, 65472, 0, None),
      Req(Dirt, 0, MinI32, 0, None),
      Req(Stone, -1, MaxI32, 5, None),
      Req(AirMarker, 0, 0, 0, None),
      Req(AirEmbedded, -1, 320, 5, Some(<<10>>)) }

Batch(id, positions, nbt) == [id |-> id, positions |-> positions, nbt |-> nbt]

\* add_blocks calls
Batches ==
    { Batch(Stone, <<<<0, 0, 0>>, <<-1, 0, 0>>>>, None),
      Batch(Dirt, <<<<0, 1, 0>>, <<0, 320, 0>>, <<0, 2, 0>>>>, Some(<<10>>)),
      Batch(AirMarker, <<<<0, 0, 0>>, <<0, 320, 0>>>>, None),
      Batch(Stone, <<<<0, 5, 0>>, <<1, 5, 0>>, <<0, -65, 0>>, <<0, 6, 0>>>>, Some(<<>>)),
      Batch(Stone, <<>>, None) }

Blk(palette_index, x, y, z, nbt) ==
    [palette_index |-> palette_index, pos |-> [x |-> x, y |-> y, z |-> z], nbt |-> nbt]

\* add_chunk calls: a well-formed chunk, a chunk whose second block is out of range,
\* an empty chunk, a chunk with an air-marked palette entry, a chunk whose block
\* refers to no palette entry
SuppliedChunks ==
    { [pos |-> <<0, 0>>, palette |-> <<Dirt>>, blocks |-> <<Blk(0, 1, 65, 2, None)>>],
      [pos |-> <<0, 0>>, palette |-> <<Stone>>,
       blocks |-> <<Blk(0, 1, 65, 2, None), Blk(0, 3, 384, 3, None)>>],
      [pos |-> <<-1, 0>>, palette |-> <<Stone>>, blocks |-> <<Blk(0, 16, 0, 0, Some(<<10>>))>>],
      [pos |-> <<1, 1>>, palette |-> <<>>, blocks |-> <<>>],
      [pos |-> <<1, 1>>, palette |-> <<AirMarker>>, blocks |-> <<>>],
      [pos |-> <<2, 0>>, palette |-> <<Stone>>, blocks |-> <<Blk(1, 0, 64, 0, None)>>] }

\* the calls of the write/decode specification
FileRequests ==
    { Req(Stone, 0, 0, 0, None),
      Req(Dirt, -1, -64, 5, Some(<<10>>)),
      Req(Stone, 0, 65472, 0, None),
      Req(Stone, 0, 320, 0, None),
      Req(AirMarker, 0, 0, 0, None) }
FileBatches == { Batch(Stone, <<<<0, 0, 0>>, <<-1, 0, 0>>>>, None) }
FileChunks ==
    { [pos |-> <<1, 1>>, palette |-> <<Dirt>>, blocks |-> <<Blk(0, 1, 65, 2, Some(<<>>))>>],
      [pos |-> <<1, 1>>, palette |-> <<Stone>>, blocks |-> <<Blk(1, 0, 64, 0, None)>>],
      [pos |-> <<1, 1>>, palette |-> <<AirMarker>>, blocks |-> <<>>] }

\* chunks whose payloads are given to deserialize_chunk
PayloadChunks ==
    { [pos |-> <<0, 0>>, palette |-> <<Stone, Dirt>>,
       blocks |-> <<Blk(0, 1, 65, 2, Some(<<10>>)), Blk(1, 3, 0, 4, None),
                    Blk(0, 15, 383, 15, Some(<<7, 8>>))>>],
      [pos |-> <<0, 0>>, palette |-> <<Dirt>>, blocks |-> <<Blk(0, 0, 64, 0, None)>>] }

\* byte values written over one byte of a well-formed input
PatchValues == {0, 1, 2, 16, 255}

\* with one byte overwritten / cut short
Patched(d, values) ==
    {WriteAt(d, i, <<v>>) : i \in 0..(Len(d) - 1), v \in values}
Truncated(d) == {SubSeq(d, 1, n) : n \in 0..(Len(d) - 1)}

\* inputs of deserialize_chunk: payloads serialize_chunk produced, and damaged ones
Payloads ==
    LET base == {serialize_chunk(c).v : c \in PayloadChunks}
    IN  base \cup UNION {Patched(d, PatchValues) \cup Truncated(d) : d \in base}

\* inputs of read_header: headers write_header produced, the same with one or two
\* fields damaged, cut short, or followed by more bytes
Headers ==
    LET base == {write_header(c, sig) : c \in 0..3, sig \in BOOLEAN}
        one == write_header(1, TRUE)
    IN  base
        \cup {h \o <<1, 2, 3>> : h \in base}
        \cup Patched(one, {0, 4, 255}) \cup Truncated(one)
        \cup {WriteAt(WriteAt(one, i, <<255>>), j, <<255>>) : i, j \in {0, 7, 8, 9, 10}}
        \cup {WriteAt(WriteAt(WriteAt(one, 0, <<255>>), 8, <<255>>), 10, <<255>>)}

\* inputs of compress_data
ByteStrings == {<<>>, <<97>>, <<0, 255>>, Stone, ZstdMagic \o ZstdEnd, Lz4Header}

CompressionTypes == 0..3
\* McsEncoder::new(c), optionally .with_signature(s)
SignatureConfigs == {None, Some(<<171, 205>>), Some(<<>>)}
\* what the target path holds before the session: nothing, or some other file
OldFile == <<79, 76, 68>>
InitialFiles == {NoFile, OldFile}

----------------------------------------------------------------------------
\* State machine

Init ==
    /\ compression \in CompressionTypes
    /\ signature \in SignatureConfigs
    /\ has_signature = IsSome(signature)
    /\ chunks = EmptyMap
    /\ added = <<>>
    /\ supplied = FALSE
    /\ call = [op |-> "new"]
    /\ result = "Ok"
    /\ file \in InitialFiles
    /\ written = None
    /\ pc = "idle"
    /\ dec = None
    /\ tasks = <<>>
    /\ saved_error = None
    /\ decoder = None

\* McsEncoder::new(CompressionType::None), no file at the target path
InitEncoder == Init /\ compression = 0 /\ signature = None /\ file = NoFile

\* the encoder is filled, then written, then the file is decoded
Encoding == pc = "idle" /\ written = None

\* McsEncoder::add_block
AddBlock(r, limit) ==
    /\ Encoding
    /\ \E checked \in BOOLEAN :
        \E out \in {add_block(chunks, r.id, r.x, r.y, r.z, r.nbt, checked)} :
            /\ TotalBlocks(out.chunks) <= limit
            /\ chunks' = out.chunks
            /\ added' = IF out.stored THEN Append(added, r) ELSE added
            /\ Len(added') <= limit
            /\ call' = [op |-> "add_block", id |-> r.id, x |-> r.x, y |-> r.y, z |-> r.z,
                        nbt |-> r.nbt]
            /\ result' = out.result
    /\ UNCHANGED <<compression, has_signature, signature, supplied, fvars, dvars>>

\* McsEncoder::add_blocks
AddBlocks(b, limit) ==
    /\ Encoding
    /\ \E checked \in BOOLEAN :
        \E out \in {add_blocks(chunks, b.id, b.positions, b.nbt, checked, 0)} :
            /\ TotalBlocks(out.chunks) <= limit
            /\ chunks' = out.chunks
            /\ added' = IF IsAir(b.id) THEN added
                        ELSE added \o [i \in 1..out.done |->
                                 Req(b.id, b.positions[i][1], b.positions[i][2],
                                     b.positions[i][3], b.nbt)]
            /\ Len(added') <= limit
            /\ call' = [op |-> "add_blocks", id |-> b.id, positions |-> b.positions,
                        nbt |-> b.nbt, done |-> out.done]
            /\ result' = out.result
    /\ UNCHANGED <<compression, has_signature, signature, supplied, fvars, dvars>>

\* McsEncoder::add_chunk
AddChunk(c, limit) ==
    /\ Encoding
    /\ \E out \in {add_chunk(chunks, c)} :
           /\ TotalBlocks(out.chunks) <= limit
           /\ chunks' = out.chunks
           /\ supplied' = (supplied \/ out.result = "Ok")
           /\ call' = [op |-> "add_chunk", chunk |-> c]
           /\ result' = out.result
    /\ UNCHANGED <<compression, has_signature, signature, added, fvars, dvars>>

\* McsEncoder::clear
Clear ==
    /\ Encoding
    /\ chunks' = EmptyMap
    /\ added' = <<>>
    /\ supplied' = FALSE
    /\ call' = [op |-> "clear"]
    /\ result' = "Ok"
    /\ UNCHANGED <<compression, has_signature, signature, fvars, dvars>>

\* McsEncoder::write_to_file(path); order = the chunk map's iteration order
WriteToFile ==
    /\ Encoding
    /\ \E order \in Orders(chunks) :
        \E out \in {write_to_file(file, chunks, compression, has_signature, signature,
                                   order)} :
            /\ file' = out.bytes
            /\ written' = Some([order |-> order, before |-> file])
            /\ call' = [op |-> "write_to_file"]
            /\ result' = out.result
    /\ UNCHANGED <<evars, dvars>>

\* what write_to_writer did in the last write_to_file
Written == write_to_writer(chunks, compression, has_signature, signature, Unwrap(written).order)
\* the file is the one write_to_file produced
Intact == written # None /\ result = "Ok" /\ call.op = "write_to_file" /\ pc = "idle"

IndexEnd(n) == HeaderSize + 4 + 16 * n

\* The file is damaged between the write and the decode: cut short,
TruncateFile ==
    /\ Intact
    /\ \E n \in {IndexEnd(Cardinality(DOMAIN chunks)), Len(file) - 1, HeaderSize - 1} :
        /\ file' = SubSeq(file, 1, n)
        /\ call' = [op |-> "truncate", len |-> n]
    /\ UNCHANGED <<evars, result, written, dvars>>

\* its header's index-table offset overwritten,
SetIndexOffset ==
    /\ Intact
    /\ \E v \in {Big(Len(file)), Big(Len(file) + 1), U32Max} :
        /\ file' = WriteAt(file, 12, BigLE(v))
        /\ call' = [op |-> "set_index_offset", v |-> v]
    /\ UNCHANGED <<evars, result, written, dvars>>

\* or one index entry's byte range overwritten
EntryRanges(f) ==
    { <<U32Max, <<0, 1>> >>, << <<0, HeaderSize>>, U32Max>>,
      <<Big(Len(f)), <<0, 1>> >>, << <<0, 0>>, <<0, HeaderSize>> >> }

SetEntryRange ==
    /\ Intact
    /\ \E i \in 1..Cardinality(DOMAIN chunks), r \in EntryRanges(file) :
        /\ file' = WriteAt(file, IndexEnd(i - 1) + 8, BigLE(r[1]) \o BigLE(r[2]))
        /\ call' = [op |-> "set_entry_range", i |-> i, data_offset |-> r[1],
                    compressed_size |-> r[2]]
    /\ UNCHANGED <<evars, result, written, dvars>>

\* or one index entry's coordinates overwritten with those of another entry
SetEntryCoord ==
    /\ Intact
    /\ \E i, j \in 1..Cardinality(DOMAIN chunks) :
        /\ i # j
        /\ file' = WriteAt(file, IndexEnd(i - 1), SubSeq(file, IndexEnd(j - 1) + 1,
                                                        IndexEnd(j - 1) + 8))
        /\ call' = [op |-> "set_entry_coord", entry |-> i, from |-> j]
    /\ UNCHANGED <<evars, result, written, dvars>>

\* McsDecoder::from_file, up to the fan-out
FromFileBegin ==
    /\ pc = "idle"
    /\ written # None
    /\ \E checked \in BOOLEAN :
        \E pre \in {FromFilePrefix(file, checked)} :
            /\ call' = [op |-> "from_file"]
            /\ decoder' = None
            /\ saved_error' = None
            /\ IF pre.result = "Ok"
               THEN /\ pc' = "fanout"
                    /\ dec' = Some(pre)
                    /\ tasks' = [i \in 1..Len(pre.entries) |-> [st |-> "pending"]]
                    /\ result' = "Pending"
               ELSE /\ pc' = "done"
                    /\ dec' = None
                    /\ tasks' = <<>>
                    /\ result' = pre.result
    /\ UNCHANGED <<evars, fvars>>

\* one task runs to completion; the first error is kept
TaskRun(i) ==
    /\ pc = "fanout"
    /\ tasks[i].st = "pending"
    /\ \E out \in {RunTask(file, Unwrap(dec).entries[i], Unwrap(dec).header.compression)} :
           /\ tasks' = [tasks EXCEPT ![i] =
                            IF out.ok THEN [st |-> "ok", pair |-> out.v]
                            ELSE [st |-> "err", err |-> out.err]]
           /\ saved_error' = IF ~out.ok /\ saved_error = None THEN Some(out.err)
                             ELSE saved_error
    /\ UNCHANGED <<evars, fvars, call, result, pc, dec, decoder>>

\* once a task has failed, tasks not yet started may never run
TaskSkip(i) ==
    /\ pc = "fanout"
    /\ tasks[i].st = "pending"
    /\ saved_error # None
    /\ tasks' = [tasks EXCEPT ![i] = [st |-> "skipped"]]
    /\ UNCHANGED <<evars, fvars, call, result, pc, dec, saved_error, decoder>>

\* the join: every task has ended; `chunks?`, then the trailer and the hash
FromFileJoin ==
    /\ pc = "fanout"
    /\ \A i \in 1..Len(tasks) : tasks[i].st # "pending"
    /\ pc' = "done"
    /\ \E collected \in {Collect(tasks, saved_error)} :
        IF ~collected.ok
        THEN /\ result' = collected.err
             /\ decoder' = None
        ELSE \E out \in {FromFileSuffix(file, Unwrap(dec), collected.v)} :
                /\ result' = out.result
                /\ decoder' = IF out.result = "Ok" THEN Some(out.decoder) ELSE None
    /\ UNCHANGED <<evars, fvars, call, dec, tasks, saved_error>>

\* chunk.rs: deserialize_chunk(data, pos) on its own
DeserializeChunk(d) ==
    /\ Encoding
    /\ call' = [op |-> "deserialize_chunk", data |-> d]
    /\ \E out \in {deserialize_chunk(d, <<0, 0>>)} : result' = out
    /\ UNCHANGED <<evars, fvars, dvars>>

\* header.rs: read_header(reader) on its own
ReadHeader(d) ==
    /\ Encoding
    /\ call' = [op |-> "read_header", data |-> d]
    /\ \E out \in {read_header(d)} : result' = out
    /\ UNCHANGED <<evars, fvars, dvars>>

\* compression.rs: decompress_data(compress_data(data, t)?, t)
CompressRoundTrip(b, compression_type) ==
    /\ Encoding
    /\ call' = [op |-> "compress_decompress", data |-> b,
                compression_type |-> compression_type]
    /\ \E out \in {Bind(compress_data(b, compression_type), LAMBDA c :
                        IF ~c.ok THEN c ELSE decompress_data(c.v, compression_type))} :
           result' = out
    /\ UNCHANGED <<evars, fvars, dvars>>

\* add_block and add_blocks only
NextBlocks ==
    \/ \E r \in Requests : AddBlock(r, MaxBlocks)
    \/ \E b \in Batches : AddBlocks(b, MaxBlocks)

\* every in-memory operation of the encoder
NextEncoder ==
    \/ \E r \in Requests : AddBlock(r, MaxBlocks)
    \/ \E b \in Batches : AddBlocks(b, MaxBlocks)
    \/ \E c \in SuppliedChunks : AddChunk(c, MaxBlocks)
    \/ Clear

\* the codecs called on their own
NextCodec ==
    \/ \E d \in Payloads : DeserializeChunk(d)
    \/ \E d \in Headers : ReadHeader(d)
    \/ \E b \in ByteStrings, t \in CompressionTypes : CompressRoundTrip(b, t)

\* encode, write, damage, decode
Next ==
    \/ \E r \in FileRequests : AddBlock(r, MaxFileBlocks)
    \/ \E b \in FileBatches : AddBlocks(b, MaxFileBlocks)
    \/ \E c \in FileChunks : AddChunk(c, MaxFileBlocks)
    \/ Clear
    \/ WriteToFile
    \/ TruncateFile
    \/ SetIndexOffset
    \/ SetEntryRange
    \/ SetEntryCoord
    \/ FromFileBegin
    \/ \E i \in 1..Len(tasks) : TaskRun(i)
    \/ \E i \in 1..Len(tasks) : TaskSkip(i)
    \/ FromFileJoin

Spec == Init /\ [][Next]_vars
SpecBlocks == InitEncoder /\ [][NextBlocks]_vars
SpecEncoder == InitEncoder /\ [][NextEncoder]_vars
SpecCodec == InitEncoder /\ [][NextCodec]_vars

----------------------------------------------------------------------------
\* Properties

InYRange(y) == y >= -64 /\ y <= 319

\* the accepted add_block calls that went to chunk k, in call order
StoredIn(k) == SelectSeq(added, LAMBDA r : ChunkPosOf(r.x, r.z) = k)

\* the distinct elements of a sequence, in first-seen order
RECURSIVE FirstSeen(_)
FirstSeen(ids) ==
    IF ids = <<>> THEN <<>>
    ELSE LET rest == FirstSeen(SubSeq(ids, 1, Len(ids) - 1))
         IN  IF ids[Len(ids)] \in Range(rest) THEN rest ELSE Append(rest, ids[Len(ids)])

\* a block of a chunk as (id, global x, global y, global z, metadata)
GlobalBlock(c, b) ==
    Req(c.palette[b.palette_index + 1], c.pos[1] * 16 + b.pos.x, actual_y(b.pos),
        c.pos[2] * 16 + b.pos.z, b.nbt)

\* the blocks of a chunk map as one sequence of (id, global position, metadata)
RECURSIVE BlocksOf(_, _)
BlocksOf(chs, keys) ==
    IF keys = {} THEN <<>>
    ELSE LET k == CHOOSE q \in keys : TRUE
         IN  [i \in 1..Len(chs[k].blocks) |-> GlobalBlock(chs[k], chs[k].blocks[i])]
             \o BlocksOf(chs, keys \ {k})

\* how often e occurs in a sequence
Count(seq, e) == Cardinality({i \in 1..Len(seq) : seq[i] = e})

\* the chunk map holds the blocks of the calls, as multisets
SameBlocks(chs, calls) ==
    LET decoded == BlocksOf(chs, DOMAIN chs)
    IN  \A e \in Range(decoded) \cup Range(calls) : Count(decoded, e) = Count(calls, e)

\* the file on disk is the one the last write_to_file produced, byte for byte
Undamaged == written # None /\ Written.result = "Ok" /\ file = Written.bytes

\* C1: when an encoder filled by add_block calls that returned Ok is written and
\* the file is decoded, from_file returns Ok and the decoded chunks hold exactly
\* the multiset of (global position, id, metadata) that was added, for every
\* iteration order of the chunk map.
C1_RoundTrip ==
    (pc = "done" /\ ~supplied /\ Undamaged) =>
        /\ result = "Ok"
        /\ decoder # None
        /\ SameBlocks(Unwrap(decoder).chunks, added)

\* C2 as stated: when the target path already exists, write_to_file returns an
\* error and the existing file is left as it was.
C2_ExclusiveCreation ==
    (call.op = "write_to_file" /\ Unwrap(written).before # NoFile) =>
        (result # "Ok" /\ file = Unwrap(written).before)

\* C2 amended: when the target path already exists, write_to_file removes the
\* existing file and then behaves as on a fresh path: it never fails because the
\* target exists, the old content is gone, and the result and the bytes on disk
\* are those of write_to_writer on an empty file.
C2_ReplacesExisting ==
    (call.op = "write_to_file" /\ Unwrap(written).before # NoFile) =>
        /\ file # Unwrap(written).before
        /\ result = Written.result
        /\ file = Written.bytes
        /\ (result = "Ok") = (chunks # EmptyMap /\ CompressAll(chunks, Unwrap(written).order,
                                                               compression, <<>>).ok)

\* an existing file was replaced by a successful write
C2_Witness ==
    /\ call.op = "write_to_file"
    /\ Unwrap(written).before = OldFile
    /\ result = "Ok"
    /\ HasPrefix(file, MCS_MAGIC)

\* the index table as it stands in the file
IndexOnDisk == read_chunk_index(file, HeaderSize)
ExactEnd(e) == BigAdd(e.data_offset, e.compressed_size)
Disjoint(e1, e2) == BigLe(ExactEnd(e1), e2.data_offset) \/ BigLe(ExactEnd(e2), e1.data_offset)

TaskStates(st) == {i \in 1..Len(tasks) : tasks[i].st = st}

\* what the caller of from_file can observe while and after the tasks run
JoinedAllOrNothing ==
    /\ pc = "fanout" => (decoder = None /\ result = "Pending")
    /\ decoder # None => (pc = "done" /\ result = "Ok")
    /\ (pc = "done" /\ result = "Ok") =>
          /\ decoder # None
          /\ TaskStates("ok") = 1..Len(tasks)
          /\ DOMAIN Unwrap(decoder).chunks = {tasks[i].pair[1] : i \in 1..Len(tasks)}
    /\ (pc = "done" /\ TaskStates("err") # {}) =>
          /\ result \notin {"Ok", "Pending"}
          /\ result = Unwrap(saved_error)
          /\ decoder = None

\* a task step writes its own slot (and the first-error slot) and nothing else
TasksShareNothing ==
    (pc = "fanout" /\ pc' = "fanout") =>
        /\ file' = file
        /\ dec' = dec
        /\ decoder' = decoder
        /\ \A j \in 1..Len(tasks) : tasks[j].st # "pending" => tasks'[j] = tasks[j]
        /\ Cardinality({j \in 1..Len(tasks) : tasks'[j] # tasks[j]}) <= 1

\* C4: under every interleaving of the per-entry tasks, from_file returns Ok only
\* when every task has completed successfully, and then with the complete map; if
\* a task failed it returns that error and no decoder; nothing is observable
\* before the join; a task changes no state but its own result.
C4_AllOrNothing == []JoinedAllOrNothing /\ [][TasksShareNothing]_vars

\* a decode in which one task succeeded, another failed, and the caller got an error
C4_Witness ==
    /\ pc = "done"
    /\ TaskStates("ok") # {}
    /\ TaskStates("err") # {}
    /\ decoder = None
    /\ result = Unwrap(saved_error)

\* the decode that follows a truncation right after the index table, or an
\* index-table offset set at or beyond the file length
DecodeOfDamagedFile ==
    /\ call'.op = "from_file"
    /\ \/ call.op = "truncate" /\ call.len = IndexEnd(Cardinality(DOMAIN chunks))
       \/ call.op = "set_index_offset" /\ BigLe(Big(Len(file)), call.v)

\* C5: a written file truncated to end right after its index table, or whose
\* header's index-table offset was set to a value at or beyond the file length,
\* makes from_file return ValidationError: no panic, no task started.
C5_CorruptionDetected ==
    [][DecodeOfDamagedFile => (result' = "ValidationError" /\ pc' = "done" /\ decoder' = None)]_vars

\* from_file has returned ValidationError on a file cut right after its index table
C5_Witness ==
    /\ pc = "done"
    /\ result = "ValidationError"
    /\ call.op = "from_file"
    /\ chunks # EmptyMap
    /\ Len(file) = IndexEnd(Cardinality(DOMAIN chunks))

\* C6: from_file starts the per-entry reads only when every index entry's exact
\* sum data_offset + compressed_size is at most the file size; an entry whose sum
\* exceeds it ends the call with ValidationError (never a panic, never acceptance
\* of the wrapped sum).
C6_NoWrappedAcceptance ==
    /\ pc = "fanout" =>
          \A i \in 1..Len(Unwrap(dec).entries) :
              BigLe(ExactEnd(Unwrap(dec).entries[i]), Big(Unwrap(dec).file_size))
    /\ result # "Panic"

\* C7: add_block with a non-air id returns Ok exactly when -64 <= y <= 319 and
\* CoordinateOutOfRange for every other y, and every block it stored has the
\* local y = global y + 64.
C7_YRangeExact ==
    /\ (call.op = "add_block" /\ ~IsAir(call.id)) =>
          result = (IF InYRange(call.y) THEN "Ok" ELSE "CoordinateOutOfRange")
    /\ \A k \in DOMAIN chunks : \A i \in 1..Len(chunks[k].blocks) :
          chunks[k].blocks[i].pos.y = StoredIn(k)[i].y + 64

NoAirInPalettes ==
    \A k \in DOMAIN chunks : \A i \in 1..Len(chunks[k].palette) : ~IsAir(chunks[k].palette[i])

AirCall == call'.op \in {"add_block", "add_blocks"} /\ IsAir(call'.id)

\* C8: add_block and add_blocks with an air-marked id return Ok and leave the
\* chunk map as it was, whatever the coordinates; no palette ever holds an
\* air-marked id.
C8_AirExclusion ==
    []NoAirInPalettes /\ [][AirCall => (result' = "Ok" /\ chunks' = chunks)]_vars

\* an air-marked add_block with an out-of-range y returned Ok on a non-empty encoder
C8_Witness ==
    /\ call.op = "add_block"
    /\ IsAir(call.id)
    /\ ~InYRange(call.y)
    /\ result = "Ok"
    /\ chunks # EmptyMap

HasBadBlock(chunk) ==
    \E i \in 1..Len(chunk.blocks) :
        chunk.blocks[i].pos.x > 15 \/ chunk.blocks[i].pos.z > 15 \/ chunk.blocks[i].pos.y > 383

\* C9: add_chunk with a chunk one of whose blocks has local x > 15, z > 15 or
\* y > 383 returns CoordinateOutOfRange and leaves the chunk map exactly as it was.
C9_ValidateThenCommit ==
    [][(call'.op = "add_chunk" /\ HasBadBlock(call'.chunk)) =>
           (result' = "CoordinateOutOfRange" /\ chunks' = chunks)]_vars

\* a chunk whose second block is out of range was refused while another chunk was
\* stored at its coordinate
C9_Witness ==
    /\ call.op = "add_chunk"
    /\ HasBadBlock(call.chunk)
    /\ ~HasBadBlock([call.chunk EXCEPT !.blocks = SubSeq(call.chunk.blocks, 1, 1)])
    /\ result = "CoordinateOutOfRange"
    /\ call.chunk.pos \in DOMAIN chunks
    /\ chunks[call.chunk.pos].palette # call.chunk.palette

\* C10: each chunk's palette has no duplicates, holds the distinct ids inserted
\* into the chunk in first-seen order, and blocks inserted with the same id carry
\* the same palette index (the index of that id).
C10_PaletteDedup ==
    \A k \in DOMAIN chunks :
        LET c == chunks[k]
            ids == [i \in 1..Len(StoredIn(k)) |-> StoredIn(k)[i].id]
        IN  /\ \A i, j \in 1..Len(c.palette) : c.palette[i] = c.palette[j] => i = j
            /\ Len(c.palette) = Cardinality(Range(ids))
            /\ c.palette = FirstSeen(ids)
            /\ Len(c.blocks) = Len(ids)
            /\ \A i \in 1..Len(c.blocks) : c.palette[c.blocks[i].palette_index + 1] = ids[i]
            /\ \A i, j \in 1..Len(c.blocks) :
                  ids[i] = ids[j] => c.blocks[i].palette_index = c.blocks[j].palette_index

\* a chunk holds two blocks of one id and a single palette entry
C10_Witness ==
    \E k \in DOMAIN chunks :
        /\ Len(chunks[k].blocks) >= 2
        /\ Len(chunks[k].palette) = 1
        /\ chunks[k].blocks[1].palette_index = chunks[k].blocks[2].palette_index

\* C11: for every stored block the chunk coordinate is the floor of the global
\* x (z) divided by 16, the local x (z) is in 0..15 and chunk * 16 + local is the
\* global coordinate (x = -1: chunk -1, local 15); for a global y in [-64, 319]
\* the stored y minus 64 is the original y.
C11_NegativeCoordinates ==
    \A k \in DOMAIN chunks : \A i \in 1..Len(chunks[k].blocks) :
        LET r == StoredIn(k)[i]
            b == chunks[k].blocks[i]
        IN  /\ b.pos.x \in 0..15 /\ b.pos.z \in 0..15
            /\ k[1] * 16 + b.pos.x = r.x
            /\ k[2] * 16 + b.pos.z = r.z
            /\ r.x = -1 => (k[1] = -1 /\ b.pos.x = 15)
            /\ InYRange(r.y) => actual_y(b.pos) = r.y

\* the block at x = -1, y = -64 is stored in chunk -1 at local x 15, local y 0
C11_Witness ==
    \E k \in DOMAIN chunks : \E i \in 1..Len(chunks[k].blocks) :
        /\ k[1] = -1
        /\ StoredIn(k)[i].x = -1 /\ StoredIn(k)[i].y = -64
        /\ chunks[k].blocks[i].pos.x = 15 /\ chunks[k].blocks[i].pos.y = 0

\* C12: a payload with a fixed record whose local x > 15, z > 15 or y > 383 is
\* refused by deserialize_chunk with CoordinateOutOfRange, so a chunk it
\* returns holds no block outside those ranges.
C12_DecodeGuardsLocalPos ==
    (call.op = "deserialize_chunk" /\ result.ok) => ~HasBadBlock(result.v)

\* the palette and the fixed records of a payload, read on their own
FixedSection(d) ==
    Bind(read_palette(d, 0), LAMBDA palette :
    IF ~palette.ok THEN palette
    ELSE Bind(ReadU32LE(d, palette.pos), LAMBDA block_count :
         IF ~block_count.ok \/ ~IsSmall(block_count.v) THEN Err("Io")
         ELSE ReadBlockRecords(d, block_count.pos, Small(block_count.v), <<>>)))

\* the first n length-prefixed blobs from position p on
RECURSIVE BlobsAt(_, _, _)
BlobsAt(d, p, n) ==
    IF n = 0 THEN <<>>
    ELSE LET len == d[p + 1] + 256 * d[p + 2]
         IN  <<SubSeq(d, p + 5, p + 4 + len)>> \o BlobsAt(d, p + 4 + len, n - 1)

\* how many of the first i records have flag bit 0 set
FlaggedUpTo(records, i) == Cardinality({j \in 1..i : IsSome(records[j].nbt)})

\* C13: when the palette, the fixed records and the trailing count can be read,
\* deserialize_chunk fails with NbtError if the count differs from the number of
\* records whose flag bit 0 is set; when they agree and the call succeeds, the
\* i-th blob is the metadata of the i-th flagged record and an unflagged record
\* has none.
C13_NbtCountCrossCheck ==
    call.op = "deserialize_chunk" =>
        \A fixed \in {FixedSection(call.data)} :
            (fixed.ok /\ ReadU32LE(call.data, fixed.pos).ok) =>
                LET records == fixed.v
                    count == ReadU32LE(call.data, fixed.pos).v
                    flagged == FlaggedUpTo(records, Len(records))
                IN  /\ count # Big(flagged) => (~result.ok /\ result.err = "NbtError")
                    /\ (count = Big(flagged) /\ result.ok) =>
                           /\ Len(result.v.blocks) = Len(records)
                           /\ \A i \in 1..Len(records) :
                                  result.v.blocks[i].nbt =
                                      IF IsSome(records[i].nbt)
                                      THEN Some(BlobsAt(call.data, fixed.pos + 4, flagged)
                                                    [FlaggedUpTo(records, i)])
                                      ELSE None

\* a payload with two flagged records whose trailing count says otherwise
C13_Witness ==
    /\ call.op = "deserialize_chunk"
    /\ FixedSection(call.data).ok
    /\ FlaggedUpTo(FixedSection(call.data).v, Len(FixedSection(call.data).v)) = 2
    /\ ~result.ok /\ result.err = "NbtError"

\* a payload whose two blobs were attached to the first and third record
C13_Attached ==
    /\ call.op = "deserialize_chunk" /\ result.ok
    /\ Len(result.v.blocks) = 3
    /\ result.v.blocks[1].nbt = Some(<<10>>)
    /\ result.v.blocks[2].nbt = None
    /\ result.v.blocks[3].nbt = Some(<<7, 8>>)

\* C14: read_header returns InvalidMagic when the 8 magic bytes differ, otherwise
\* UnsupportedVersion when the big-endian version is not 0x0100, otherwise
\* UnsupportedCompression when the compression id is above 3; a 20-byte header
\* that passes the three tests is returned as its parsed fields, and the header
\* of write_header(c, sig) reads back as compression c, flag bit 0 = sig and
\* index offset 0.
C14_HeaderRejectionOrder ==
    call.op = "read_header" =>
        LET d == call.data
            magic_ok == SubSeq(d, 1, 8) = <<77, 67, 83, 84, 82, 77, 0, 0>>
            version_ok == d[9] = 1 /\ d[10] = 0
            compression_ok == d[11] \in 0..3
        IN  /\ (Len(d) >= 8 /\ ~magic_ok) =>
                   (~result.ok /\ result.err = "InvalidMagic")
            /\ (Len(d) >= 10 /\ magic_ok /\ ~version_ok) =>
                   (~result.ok /\ result.err = "UnsupportedVersion")
            /\ (Len(d) >= 11 /\ magic_ok /\ version_ok /\ ~compression_ok) =>
                   (~result.ok /\ result.err = "UnsupportedCompression")
            /\ (Len(d) >= 20 /\ magic_ok /\ version_ok /\ compression_ok) =>
                   /\ result.ok
                   /\ result.v.version = 256
                   /\ result.v.compression = d[11]
                   /\ result.v.flags = d[12]
                   /\ result.v.index_table_offset = <<d[15] + 256 * d[16], d[13] + 256 * d[14]>>
            /\ \A c \in 0..3, sig \in BOOLEAN :
                   d = write_header(c, sig) =>
                       /\ result.ok
                       /\ result.v.compression = c
                       /\ (result.v.flags % 2 = 1) = sig
                       /\ result.v.index_table_offset = <<0, 0>>

\* a header with wrong magic, wrong version and unknown compression id at once
C14_Witness ==
    /\ call.op = "read_header"
    /\ Len(call.data) = 20
    /\ call.data[1] = 255 /\ call.data[9] = 255 /\ call.data[11] = 255
    /\ ~result.ok /\ result.err = "InvalidMagic"

\* the header of write_header(3, TRUE) read back
C14_ReadBack ==
    /\ call.op = "read_header"
    /\ call.data = write_header(3, TRUE)
    /\ result.ok /\ result.v.compression = 3 /\ result.v.flags = 1

\* C18: for each of the four algorithms and every input b, including the empty
\* and the 1-byte input, decompress_data(compress_data(b, alg), alg) returns b.
C18_CompressionRoundTrip ==
    call.op = "compress_decompress" => (result.ok /\ result.v = call.data)

\* C15: write_to_file on an encoder that holds no chunks (new, after only
\* air-marked or rejected insertions, or after clear) returns ValidationError.
C15_EmptyEncoderRejected ==
    [][(call'.op = "write_to_file" /\ chunks = EmptyMap) =>
           result' = "ValidationError"]_vars

\* write_to_file refused on an encoder without chunks; the file that was at the
\* path has been removed and an empty one created
C15_Witness ==
    /\ call.op = "write_to_file" /\ chunks = EmptyMap
    /\ result = "ValidationError"
    /\ Unwrap(written).before # NoFile
    /\ file = <<>>

\* the maximal data_offset + compressed_size over the entries on disk
FooterOffset ==
    CHOOSE m \in {ExactEnd(IndexOnDisk.v[i]) : i \in 1..Len(IndexOnDisk.v)} :
        \A i \in 1..Len(IndexOnDisk.v) : BigLe(ExactEnd(IndexOnDisk.v[i]), m)

\* every byte from the footer offset to the end of the file
Trailer == SubSeq(file, Small(FooterOffset) + 1, Len(file))

\* the written file ends with the configured signature and nothing else
C16_AppendedVerbatim ==
    Intact => Trailer = (IF IsSome(signature) THEN Unwrap(signature) ELSE <<>>)

\* a signature is reported only with flag bit 0 set, and is then the trailer
C16_ReportedFromFooter ==
    (decoder # None /\ IsSome(Unwrap(decoder).signature)) =>
        /\ file[12] % 2 = 1
        /\ Unwrap(Unwrap(decoder).signature) = Trailer

\* a file written with with_signature(s) decodes to signature s
C16_DecodesToConfigured ==
    (pc = "done" /\ Undamaged /\ IsSome(signature)) =>
        /\ result = "Ok"
        /\ decoder # None
        /\ Unwrap(decoder).signature = signature

\* C16: the encoder appends a configured signature verbatim, with no length
\* prefix, as every byte from the end of the last chunk's data to the end of the
\* file; the decoder reports a signature only when header flag bit 0 is set, and
\* then it is the bytes from the footer offset to the end of the file; so a file
\* written with with_signature(s) decodes to signature s.
C16_TrailingSignature ==
    /\ C16_AppendedVerbatim
    /\ C16_ReportedFromFooter
    /\ C16_DecodesToConfigured

\* the same round trip for the codecs that close their streams and a signature
\* of at least one byte
C16_DecodesNonEmpty ==
    (pc = "done" /\ Undamaged /\ IsSome(signature) /\ Unwrap(signature) # <<>>
     /\ compression # 2) =>
        /\ result = "Ok"
        /\ decoder # None
        /\ Unwrap(decoder).signature = signature

\* the encoder holds the single block "stone" at (0, 0, 0) without metadata and
\* was written with CompressionType::None and no signature
GoldenScenario ==
    /\ Intact
    /\ compression = 0 /\ signature = None
    /\ ~supplied
    /\ added = <<Req(<<115, 116, 111, 110, 101>>, 0, 0, 0, None)>>

\* C17: the golden scenario writes exactly 64 bytes: magic, version 0x0100
\* big-endian, compression 0, flags 0, index offset 20, 4 reserved zero bytes;
\* entry count 1 and the entry (0, 0, data_offset 40, compressed_size 24);
\* palette count 1, length 5, "stone", block count 1, the record (palette index 0,
\* x 0, y 64, z 0, flags 0), metadata count 0.
C17_GoldenFile ==
    GoldenScenario =>
        file = << 77, 67, 83, 84, 82, 77, 0, 0,
                  1, 0,
                  0,
                  0,
                  20, 0, 0, 0,
                  0, 0, 0, 0,
                  1, 0, 0, 0,
                  0, 0, 0, 0,  0, 0, 0, 0,  40, 0, 0, 0,  24, 0, 0, 0,
                  1, 0,
                  5, 0,  115, 116, 111, 110, 101,
                  1, 0, 0, 0,
                  0, 0,  0,  64, 0,  0,  0,
                  0, 0, 0, 0 >>

\* the golden scenario written to a path that held no file
C17_Witness ==
    /\ GoldenScenario
    /\ Unwrap(written).before = NoFile
    /\ Len(file) = 64

\* every block's palette_index is below the length of the chunk's palette
ValidPaletteIndexes(chunk) ==
    \A i \in 1..Len(chunk.blocks) : chunk.blocks[i].palette_index < Len(chunk.palette)

\* C19: in every encoder state reached by add_block, add_blocks, add_chunk and
\* clear, every block's palette_index is a valid index into the palette of the
\* chunk that holds it.
C19_PaletteIndexValid ==
    \A k \in DOMAIN chunks : ValidPaletteIndexes(chunks[k])

\* C20: every chunk in the map a successful from_file returns has only blocks
\* whose palette_index is a valid index into that chunk's palette.
C20_DecodedPaletteIndexValid ==
    decoder # None =>
        \A k \in DOMAIN Unwrap(decoder).chunks : ValidPaletteIndexes(Unwrap(decoder).chunks[k])

\* the chunk the decoder builds from the i-th index entry on disk
ChunkOfEntry(i) ==
    RunTask(file, IndexOnDisk.v[i], file[11])

\* C21: after a successful from_file the chunk map holds exactly one chunk per
\* index entry: as many chunks as entries, and for each entry the chunk under
\* key (chunk_x, chunk_z) is the one deserialized from that entry's byte range
\* and has that coordinate as its pos.
C21_OneChunkPerEntry ==
    decoder # None =>
        /\ Cardinality(DOMAIN Unwrap(decoder).chunks) = Len(IndexOnDisk.v)
        /\ \A i \in 1..Len(IndexOnDisk.v) :
               LET key == <<IndexOnDisk.v[i].chunk_x, IndexOnDisk.v[i].chunk_z>>
               IN  /\ key \in DOMAIN Unwrap(decoder).chunks
                   /\ Unwrap(decoder).chunks[key] = ChunkOfEntry(i).v[2]
                   /\ Unwrap(decoder).chunks[key].pos = key

\* bytes [a, b) of a sink
Bytes(buf, a, b) == SubSeq(buf, a + 1, b)

\* C22: in write_to_writer the header's index-offset field is patched to 20 and
\* only bytes [12, 16) change; the second index-table write covers exactly the
\* bytes [20, 20 + 4 + 16 n) of the first; so after the call header bytes [0, 12)
\* and [16, 20) and every chunk's compressed bytes are unchanged, the first
\* chunk's data starts at 20 + 4 + 16 n, and each following data_offset is the
\* previous entry's data_offset + compressed_size, in index order.
C22_PlaceholderThenPatch ==
    Intact =>
        \A W \in {Written} :
        \A w1 \in {write_header(compression, has_signature)} :
        \A chunk_data \in {CompressAll(chunks, W.order, compression, <<>>).v} :
            LET n == Cardinality(DOMAIN chunks)
                table_end == 20 + 4 + 16 * n
                entries == IndexOnDisk.v
            IN  /\ Len(w1) = 20 /\ Len(W.w2) = 20
                /\ Bytes(W.w2, 12, 16) = <<20, 0, 0, 0>>
                /\ Bytes(W.w2, 0, 12) = Bytes(w1, 0, 12)
                /\ Bytes(W.w2, 16, 20) = Bytes(w1, 16, 20)
                /\ Len(W.w5) = table_end
                /\ Bytes(W.w5, 0, 20) = W.w2
                /\ Len(W.w7) = Len(W.w6)
                /\ Bytes(W.w7, 0, 20) = Bytes(W.w6, 0, 20)
                /\ Bytes(W.w7, table_end, Len(W.w7)) = Bytes(W.w6, table_end, Len(W.w6))
                /\ Bytes(W.w6, 0, table_end) = W.w5
                /\ Bytes(file, 0, Len(W.w7)) = W.w7
                /\ Bytes(file, 0, 12) = Bytes(w1, 0, 12)
                /\ Bytes(file, 16, 20) = Bytes(w1, 16, 20)
                /\ Len(entries) = n
                /\ entries[1].data_offset = Big(table_end)
                /\ \A i \in 1..n :
                       /\ entries[i].compressed_size = Big(Len(chunk_data[i]))
                       /\ Bytes(file, Small(entries[i].data_offset),
                                Small(ExactEnd(entries[i]))) = chunk_data[i]
                /\ \A i \in 1..(n - 1) :
                       entries[i + 1].data_offset = ExactEnd(entries[i])

\* a written file of two chunks, the second chunk's data not empty and placed
\* right after the first chunk's
C22_Witness ==
    /\ Intact
    /\ Len(IndexOnDisk.v) = 2
    /\ IndexOnDisk.v[1].data_offset = Big(56)
    /\ BigLt(IndexOnDisk.v[1].data_offset, IndexOnDisk.v[2].data_offset)
    /\ IndexOnDisk.v[2].data_offset = ExactEnd(IndexOnDisk.v[1])
    /\ BigLt(<<0, 0>>, IndexOnDisk.v[2].compressed_size)

\* add_block rejects the position: its re-based y is above 383
Rejected(p) == validate_local_pos(LocalPosOf(p[1], p[2], p[3])) # "Ok"

\* the blocks add_block stores for the positions that fall in chunk key
BlocksFor(positions, key) ==
    SelectSeq(positions, LAMBDA p : ChunkPosOf(p[1], p[3]) = key)

\* the chunk map is the one before the call with the blocks for the first n
\* positions appended, in order, to their chunks
PrefixInserted(before, after, id, positions, nbt, n) ==
    /\ DOMAIN after = DOMAIN before
                         \cup {ChunkPosOf(positions[i][1], positions[i][3]) : i \in 1..n}
    /\ \A key \in DOMAIN after :
          LET old == IF key \in DOMAIN before THEN before[key].blocks ELSE <<>>
              new == BlocksFor(SubSeq(positions, 1, n), key)
              now == after[key].blocks
          IN  /\ Len(now) = Len(old) + Len(new)
              /\ SubSeq(now, 1, Len(old)) = old
              /\ \A j \in 1..Len(new) :
                     /\ now[Len(old) + j].pos = LocalPosOf(new[j][1], new[j][2], new[j][3])
                     /\ now[Len(old) + j].nbt = nbt
                     /\ after[key].palette[now[Len(old) + j].palette_index + 1] = id

\* C23: when add_blocks returns CoordinateOutOfRange, the position k that
\* add_block rejected is the first rejected position of the call, the blocks for
\* the positions before k have been appended to their chunks in order with the
\* shared id and metadata and stay in the encoder, and no position after k has
\* been processed.
C23_AddBlocksNotAtomic ==
    [][(call'.op = "add_blocks" /\ result' = "CoordinateOutOfRange") =>
           \E k \in 1..Len(call'.positions) :
               /\ Rejected(call'.positions[k])
               /\ \A i \in 1..(k - 1) : ~Rejected(call'.positions[i])
               /\ PrefixInserted(chunks, chunks', call'.id, call'.positions, call'.nbt,
                                 k - 1)
               /\ TotalBlocks(chunks') = TotalBlocks(chunks) + (k - 1)]_vars

\* add_blocks failed at its third position: the blocks of the first two are in
\* the encoder and the block of the fourth is not
C23_Witness ==
    /\ call.op = "add_blocks" /\ result = "CoordinateOutOfRange"
    /\ Len(call.positions) = 4
    /\ <<0, 0>> \in DOMAIN chunks
    /\ \E j \in 1..(Len(chunks[<<0, 0>>].blocks) - 1) :
           /\ chunks[<<0, 0>>].blocks[j].pos = [x |-> 0, y |-> 69, z |-> 0]
           /\ chunks[<<0, 0>>].blocks[j + 1].pos = [x |-> 1, y |-> 69, z |-> 0]
    /\ \A j \in 1..Len(chunks[<<0, 0>>].blocks) :
           chunks[<<0, 0>>].blocks[j].pos # [x |-> 0, y |-> 70, z |-> 0]

====
